---- MODULE Spec2Model ----
(***************************************************************************)
(* A model of wobble: the per-order optimizer of wobble/wobble.py (Model,  *)
(* Component, History, optimize_order, optimize_orders) and the pixel      *)
(* masks of wobble/spectra.py (Spectrum).                                  *)
(*                                                                         *)
(* TensorFlow variables.  A tf.Variable holds a value that only two things *)
(* change: running an optimizer op (one Adam step on the variables of its  *)
(* var_list) and running tf.global_variables_initializer(), which assigns  *)
(* EVERY variable of the graph its initial value again.  A variable's      *)
(* value is therefore written as the number of Adam steps applied to it    *)
(* since it last held its initial value: 0 is the initial value, k+1 the   *)
(* value one step after k.  What a step computes is the gradient of nll at *)
(* the variable values the session holds when the op runs; the model keeps *)
(* those values (the op's inputs) in the log `reads`.                      *)
(***************************************************************************)
EXTENDS Integers, Sequences, FiniteSets, TLC

\* ------------------------------------------------------------------ bounds
NumOrders == 2          \* data.R, the number of echelle orders
NumEpochs == 2          \* data.N, the number of epochs
SmallPixels == 3        \* a pixel count M of the data other than 4096
SpanBins == 2           \* bins of the template grid covered by the data
MaxComponents == 2      \* components added to one Model
MaxBases == 1           \* largest variable_bases (K) of a component
MaxIter == 2            \* largest niter
MaxSaveEvery == 2       \* largest save_every
MaxCalls == 2           \* calls of optimize_order / optimize_orders in one run
MaskPixels == 4         \* pixels per order of the Spectrum
MaxPadding == 2         \* largest padding
MaxBad == 2             \* pixels of the Spectrum that are NaN or low
MaxAppend == 3          \* largest epoch count of a Spectra

\* -------------------------------------------------------- program constants
HistPixels == 4096      \* the hard-coded pixel count of History's arrays
GridPad == 10           \* `tiny`: grid points added on each side of the data

Orders == 0 .. (NumOrders - 1)
None == << >>           \* Python's None: a variable not created yet
Some(v) == << v >>

Min(a, b) == IF a <= b THEN a ELSE b

VARIABLES
    components,     \* model.components: Seq of [K, rvs_fixed]
                    \* (rvs_fixed: membership in model.components_rvs_fixed)
    rvs_block,      \* Seq over components of [Orders -> value]
    template_ys,    \* Seq over components of [Orders -> None or Some(value)]
    basis,          \* Seq over components of [Orders -> None or Some(value)]:
                    \* basis_vectors[r] and basis_weights[r], made and stepped together
    dataM,          \* M, the pixels per epoch of the data (data.ys[r] is N x M)
    pc,             \* where the running call is: "idle", "loop" or "final"
    call,           \* "none", "optimize_order" or "optimize_orders": the last call
    calls,          \* how many calls were made
    arg,            \* the arguments of the last optimize_order
    i,              \* optimize_order's iteration index
    history,        \* None or Some(History object)
    outcome,        \* "none", "running", "returned" or the exception raised
    driver,         \* what optimize_orders did: [failed, optimized]
    objective,      \* None or Some(the regularization terms of nll): for each
                    \* of the three norms, the components whose term is in it
    \* ---- observers: no action reads them to decide what to do
    before,         \* the variables' values when the last call began
    iterStart,      \* the order's values when the last iteration began
    reads,          \* the optimizer ops run in that iteration, in order:
                    \* Seq of [c, var, seen], seen the values the gradient was
                    \* evaluated at
    cadence_writes, \* iterations at whose end history.write ran (line 409)
    final_writes,   \* how many times the final history.write ran (line 410)
    initialized,    \* the initialize_template calls made so far, in order:
                    \* Seq of [call, c, r, subtracted], subtracted the
                    \* components whose template was taken off the residuals
    \* ---- Model.synthesize on numbers (SpecSynth)
    xs,             \* data.xs: [Orders -> N x M matrix]
    airms,          \* data.airms: one airmass per epoch
    synth,          \* None or Some(what Model.synthesize returned)
    synth_r,        \* the order it was called for
    \* ---- History.write / History.read (SpecHist)
    hist,           \* the History in memory, by attribute; None when there is none
    files,          \* the file system: [Filenames -> None or Some(hdf5 file)],
                    \* a file being a function from dataset names to arrays
    written,        \* the files `hist` was written to
    loaded,         \* the last History(model, data, r, niter, filename)
    \* ---- Spectrum.mask_low_pixels (SpecMask)
    ys,             \* Spectrum.ys: one sequence of fluxes per order
    ivars,          \* Spectrum.ivars: one sequence of inverse variances per order
    mask_call,      \* None or Some(the mask call made): [op, min_flux, padding]
                    \* for op = "low", [op, max_flux, padding] for op = "high"
    pre_ys,         \* observer: ys when the mask was called
    pre_ivars,      \* observer: ivars when the mask was called
    \* ---- continuum_normalize (SpecNorm)
    cn_obj,         \* the Spectrum or Data: [cls, ys, ivars], per order
    cn_call,        \* None or Some([fits, outcome]) of the call made
    cn_before,      \* observer: cn_obj when the call was made
    \* ---- Spectra.append / Spectra.pop (SpecSpectra)
    spectra,        \* the Spectra: [empty, N, R, arrays, meta]
    spectra_call,   \* the last call: [op, R, index, outcome]
    spectra_before  \* observer: the Spectra when the last call was made

modelVars == << components, rvs_block, template_ys, basis, dataM >>
ctrlVars == << pc, call, calls, arg, i, history, outcome, driver, objective >>
obsVars == << before, iterStart, reads, cadence_writes, final_writes, initialized >>
optVars == << modelVars, ctrlVars, obsVars >>
synthVars == << xs, airms, synth, synth_r >>
histVars == << hist, files, written, loaded >>
maskVars == << ys, ivars, mask_call, pre_ys, pre_ivars >>
normVars == << cn_obj, cn_call, cn_before >>
spectraVars == << spectra, spectra_call, spectra_before >>
vars == << optVars, synthVars, histVars, maskVars, normVars, spectraVars >>

\* What the actions of one specification leave alone.
notOptVars == << synthVars, histVars, maskVars, normVars, spectraVars >>
notSynthVars == << ctrlVars, obsVars, dataM, histVars, maskVars, normVars, spectraVars >>
notHistVars == << ctrlVars, obsVars, synthVars, maskVars, normVars, spectraVars >>
notMaskVars == << optVars, synthVars, histVars, normVars, spectraVars >>
notNormVars == << optVars, synthVars, histVars, maskVars, spectraVars >>
notSpectraVars == << optVars, synthVars, histVars, maskVars, normVars >>

\* The parts of the state a specification does not use, before anything ran.
OptIdle ==
    /\ pc = "idle"
    /\ call = "none"
    /\ calls = 0
    /\ arg = [r |-> 0, niter |-> 0, save_every |-> 1, save_history |-> FALSE]
    /\ i = 0
    /\ history = None
    /\ outcome = "none"
    /\ driver = [failed |-> {}, optimized |-> {}]
    /\ objective = None
    /\ initialized = << >>
    /\ before = [rvs |-> << >>, tmpl |-> << >>, basis |-> << >>]
    /\ iterStart = << >>
    /\ reads = << >>
    /\ cadence_writes = {}
    /\ final_writes = 0

SynthIdle ==
    /\ xs = << >>
    /\ airms = << >>
    /\ synth = None
    /\ synth_r = 0

HistIdle ==
    /\ hist = None
    /\ files = << >>
    /\ written = {}
    /\ loaded = None

MaskIdle ==
    /\ ys = << >>
    /\ ivars = << >>
    /\ mask_call = None
    /\ pre_ys = << >>
    /\ pre_ivars = << >>

NormIdle ==
    /\ cn_obj = None
    /\ cn_call = None
    /\ cn_before = None

SpectraIdle ==
    /\ spectra = None
    /\ spectra_call = None
    /\ spectra_before = None

Comps == 1 .. Len(components)

\* ------------------------------------------------------------- the store
Store == [rvs |-> rvs_block, tmpl |-> template_ys, basis |-> basis]

\* The values of order r's variables, per component: what nll of order r reads.
ValuesOf(st, r) ==
    [c \in DOMAIN st.rvs |->
        [rvs |-> st.rvs[c][r], tmpl |-> st.tmpl[c][r], basis |-> st.basis[c][r]]]

\* session.run(tf.global_variables_initializer()): every variable that exists,
\* of every component and every order, is assigned its initial value.
GlobalVariablesInitializer(st) ==
    [rvs |-> [c \in DOMAIN st.rvs |-> [r \in Orders |-> 0]],
     tmpl |-> [c \in DOMAIN st.tmpl |->
                [r \in Orders |-> IF st.tmpl[c][r] = None THEN None ELSE Some(0)]],
     basis |-> [c \in DOMAIN st.basis |->
                [r \in Orders |-> IF st.basis[c][r] = None THEN None ELSE Some(0)]]]

\* ------------------------------------------------------------------ Model
\* Component.__init__ (and Star / Telluric): rvs_block is a variable per order,
\* the template and the basis are None for every order.  What tells a Star from
\* a Telluric (the airmass factor of synthesize, the learning rate) changes the
\* numbers an Adam step computes, not which variables it reads and writes.
NewComponent(rvs_fixed, variable_bases) ==
    /\ pc = "idle"
    /\ Len(components) < MaxComponents
    /\ components' = Append(components, [K |-> variable_bases, rvs_fixed |-> rvs_fixed])
    /\ rvs_block' = Append(rvs_block, [r \in Orders |-> 0])
    /\ template_ys' = Append(template_ys, [r \in Orders |-> None])
    /\ basis' = Append(basis, [r \in Orders |-> None])
    /\ UNCHANGED << notOptVars, dataM, ctrlVars, obsVars >>

\* A keyword argument is None when the caller leaves it out, and then takes the
\* default of the def line.
Given(value, default) == IF value = None THEN default ELSE value[1]

add_star ==
    \E rvs_fixed \in {None, Some(TRUE), Some(FALSE)}, variable_bases \in 0 .. MaxBases :
        NewComponent(Given(rvs_fixed, FALSE), variable_bases)

add_telluric ==
    \E rvs_fixed \in {None, Some(TRUE), Some(FALSE)}, variable_bases \in 0 .. MaxBases :
        NewComponent(Given(rvs_fixed, TRUE), variable_bases)

\* ---------------------------------------------------------------- History
\* Shapes are sequences of dimensions; a scalar has shape << >>.
TemplateLen == SpanBins + 2 * GridPad   \* length of template_xs[r], template_ys[r]

\* tf.svd of the N x M residuals gives min(N, M) singular vectors; [:, :K] keeps
\* at most K of them.
BasisCount(c) == Min(components[c].K, Min(NumEpochs, dataM))

\* The shapes of the values save_iter reads from the session.
NllShape == << >>
ChisShape == << NumEpochs, dataM >>
RvsShape == << NumEpochs >>
TemplateShape == << TemplateLen >>
\* Mutant: the eigenspectra on the template's grid.
BasisVectorsShapeOfTemplate(c) == << BasisCount(c), TemplateLen >>

\* v[:, :K] transposed, of the svd of the N x M residuals: K x M (line 196).
BasisVectorsShape(c) == << BasisCount(c), dataM >>
BasisWeightsShape(c) == << NumEpochs, BasisCount(c) >>

\* History.__init__: np.empty arrays, one slot per iteration.
HistoryInit(r, niter) ==
    [r |-> r,
     niter |-> niter,
     nll_shape |-> << niter >>,
     rvs_shape |-> [c \in Comps |-> << niter, NumEpochs >>],
     template_shape |-> [c \in Comps |-> << niter, TemplateLen >>],
     basis_vectors_shape |-> [c \in Comps |-> << niter, components[c].K, HistPixels >>],
     basis_weights_shape |-> [c \in Comps |-> << niter, NumEpochs, components[c].K >>],
     chis_shape |-> << niter, NumEpochs, HistPixels >>,
     \* the contents: None is a slot np.empty left unwritten
     nll |-> [k \in 0 .. (niter - 1) |-> None],
     chis |-> [k \in 0 .. (niter - 1) |-> None],
     state |-> [k \in 0 .. (niter - 1) |->
                 [c \in Comps |-> [template |-> None, rvs |-> None, basis |-> None]]]]

\* The slot of one iteration: array[i] of an array of shape << niter, ... >>.
Slot(shape) == SubSeq(shape, 2, Len(shape))

\* numpy's rule for slot[...] = value: the value's dimensions, aligned at the
\* right, each equal the slot's or are 1.
Broadcasts(value, slot) ==
    /\ Len(value) <= Len(slot)
    /\ \A k \in 1 .. Len(value) :
          LET v == value[Len(value) - k + 1]
              s == slot[Len(slot) - k + 1]
          IN  v = s \/ v = 1

\* save_iter's assignments for component c succeed.
BasisFits(h, c) ==
    components[c].K > 0 =>
        /\ Broadcasts(BasisVectorsShape(c), Slot(h.basis_vectors_shape[c]))
        /\ Broadcasts(BasisWeightsShape(c), Slot(h.basis_weights_shape[c]))

ChisFits(h) == Broadcasts(ChisShape, Slot(h.chis_shape))

\* The first component whose basis assignment raises, 0 when none does.
FirstBadComponent(h) ==
    IF \A c \in Comps : BasisFits(h, c) THEN 0
    ELSE CHOOSE c \in Comps :
            /\ ~BasisFits(h, c)
            /\ \A d \in Comps : d < c => BasisFits(h, d)

SaveIterRaises(h) == ~ChisFits(h) \/ FirstBadComponent(h) # 0

\* History.save_iter(model, data, i, nll, chis): the session's current values of
\* order r go into slot i, in the order of the assignments, up to the first one
\* that raises.
SaveIter(h, k, vals) ==
    LET bad == FirstBadComponent(h)
        entry(c) ==
            IF bad # 0 /\ c > bad THEN h.state[k][c]
            ELSE [template |-> Some(vals[c].tmpl),
                  rvs |-> Some(vals[c].rvs),
                  basis |-> IF components[c].K > 0 /\ c # bad
                            THEN Some(vals[c].basis) ELSE h.state[k][c].basis]
    IN  IF ~ChisFits(h)
        THEN [h EXCEPT !.nll[k] = Some(vals)]
        ELSE [h EXCEPT !.nll[k] = Some(vals),
                       !.chis[k] = Some(vals),
                       !.state[k] = [c \in Comps |-> entry(c)]]

\* ------------------------------------------------------------- Component
\* Component.initialize_template(r, data, other_components): the initializer run
\* of line 187, then the template's variable and, if K > 0, the basis' variables
\* are created for order r.
InitializeTemplate(st, c, r) ==
    LET s1 == GlobalVariablesInitializer(st)
    IN  [rvs |-> s1.rvs,
         tmpl |-> [s1.tmpl EXCEPT ![c][r] = Some(0)],
         basis |-> IF components[c].K > 0
                   THEN [s1.basis EXCEPT ![c][r] = Some(0)]
                   ELSE s1.basis]

\* Mutant: every op of an iteration evaluates the gradient at the values the
\* iteration began with (gradients computed once, up front).
GradientInputsAtIterationStart(st, r) == ValuesOf(Store, r)

\* The values at which an optimizer op of order r evaluates the gradient of nll
\* when the session runs it on store st: the values the session holds then.
GradientInputs(st, r) == ValuesOf(st, r)

\* One Adam step on the variable of the op's var_list.
Step(st, c, var, r) ==
    CASE var = "rvs" -> [st EXCEPT !.rvs[c][r] = @ + 1]
      [] var = "template" -> [st EXCEPT !.tmpl[c][r] = Some(@[1] + 1)]
      [] var = "basis" -> [st EXCEPT !.basis[c][r] = Some(@[1] + 1)]

\* session.run(c.opt_<var>) on a run acc = [st, log]: the step, and the op's
\* entry in the log.
SessionRun(acc, c, var, r) ==
    [st |-> Step(acc.st, c, var, r),
     log |-> Append(acc.log, [c |-> c, var |-> var, seen |-> GradientInputs(acc.st, r)])]

\* Mutant: the membership test is left out, every component's velocities step.
RvsFixedIgnored(c) == FALSE

\* `if not c in model.components_rvs_fixed` (line 401)
RvsFixed(c) == components[c].rvs_fixed

\* Lines 401-405 for component c.
UpdateComponent(acc, c, r) ==
    LET a1 == IF ~RvsFixed(c) THEN SessionRun(acc, c, "rvs", r) ELSE acc
        a2 == SessionRun(a1, c, "template", r)
    IN  IF components[c].K > 0 THEN SessionRun(a2, c, "basis", r) ELSE a2

\* `for c in model.components` (line 400) from component c on.
RECURSIVE UpdateFrom(_, _, _)
UpdateFrom(acc, c, r) ==
    IF c > Len(components) THEN acc
    ELSE UpdateFrom(UpdateComponent(acc, c, r), c + 1, r)

\* Mutant: the test of line 363 is left out, every template is initialized.
NeedsTemplateAlways(st, c, r) == TRUE

\* `if c.template_ys[r] is None` (line 363)
NeedsTemplate(st, c, r) == st.tmpl[c][r] = None

\* Lines 362-364 from component c on: a template that is None is initialized.
RECURSIVE InitTemplatesFrom(_, _, _)
InitTemplatesFrom(st, c, r) ==
    IF c > Len(components) THEN st
    ELSE InitTemplatesFrom(
            IF NeedsTemplate(st, c, r) THEN InitializeTemplate(st, c, r) ELSE st,
            c + 1, r)

\* `other_components=[x for x in model.components if x!=c]` (line 364)
OtherComponents(c) == Comps \ {c}

\* Lines 181-183: the other components whose template for r is not None are
\* taken off the residuals the template is binned from.
Subtracted(st, c, r) == {d \in OtherComponents(c) : st.tmpl[d][r] # None}

\* The initialize_template calls of lines 362-364 from component c on, in the
\* order they are made, n being the number of the optimize_order call.
RECURSIVE InitCallsFrom(_, _, _, _)
InitCallsFrom(st, c, r, n) ==
    IF c > Len(components) THEN << >>
    ELSE IF NeedsTemplate(st, c, r)
         THEN << [call |-> n, c |-> c, r |-> r, subtracted |-> Subtracted(st, c, r)] >>
              \o InitCallsFrom(InitializeTemplate(st, c, r), c + 1, r, n)
         ELSE InitCallsFrom(st, c + 1, r, n)

\* Lines 373-384 for component c: `+=` on the template's norm, `=` on the two
\* norms of the basis.
RegularizationStep(norms, c) ==
    LET n1 == [norms EXCEPT !.L1_norm_template = @ \cup {c}]
    IN  IF components[c].K > 0
        THEN [n1 EXCEPT !.L2_norm_basis_vectors = {c},
                        !.L2_norm_basis_weights = {c}]
        ELSE n1

\* `for c in model.components` (line 381) from component c on.
RECURSIVE RegularizationFrom(_, _)
RegularizationFrom(norms, c) ==
    IF c > Len(components) THEN norms
    ELSE RegularizationFrom(RegularizationStep(norms, c), c + 1)

\* Lines 373-387: the three norms start at 0. and are added to nll.
Regularization ==
    RegularizationFrom([L1_norm_template |-> {},
                        L2_norm_basis_vectors |-> {},
                        L2_norm_basis_weights |-> {}], 1)

\* --------------------------------------------------------- optimize_order
\* The call, and lines 362-394: the arguments are bound, the templates
\* initialized, the History made if asked for, the objective and the optimizers
\* built, and the initializer run of line 394.
OptimizeOrderBegin ==
    \E r \in Orders, niter \in 0 .. MaxIter, save_every \in 1 .. MaxSaveEvery,
       save_history \in {None, Some(TRUE), Some(FALSE)} :
        /\ pc = "idle"
        /\ calls < MaxCalls
        /\ calls' = calls + 1
        /\ call' = "optimize_order"
        /\ arg' = [r |-> r, niter |-> niter, save_every |-> save_every,
                   save_history |-> Given(save_history, FALSE)]
        /\ LET st == GlobalVariablesInitializer(InitTemplatesFrom(Store, 1, r))
           IN  /\ rvs_block' = st.rvs
               /\ template_ys' = st.tmpl
               /\ basis' = st.basis
        /\ history' = IF Given(save_history, FALSE)
                      THEN Some(HistoryInit(r, niter))
                      ELSE None
        /\ objective' = Some(Regularization)
        /\ initialized' = initialized \o InitCallsFrom(Store, 1, r, calls + 1)
        /\ i' = 0
        /\ pc' = IF niter = 0 THEN "final" ELSE "loop"
        /\ outcome' = "running"
        /\ before' = Store
        /\ iterStart' = << >>
        /\ reads' = << >>
        /\ cadence_writes' = {}
        /\ final_writes' = 0
        /\ UNCHANGED << notOptVars, components, dataM, driver >>

\* `(i+1 % save_every == 0)`: % binds tighter than +.
CadenceDue(k, save_every) == k + (1 % save_every) = 0

\* Lines 397-409, one iteration: save_iter if history was asked for, the
\* optimizer ops of every component, the cadence write (model.write only prints).
Iterate ==
    /\ pc = "loop"
    /\ iterStart' = ValuesOf(Store, arg.r)
    /\ history' = IF arg.save_history
                  THEN Some(SaveIter(history[1], i, ValuesOf(Store, arg.r)))
                  ELSE history
    /\ IF arg.save_history /\ SaveIterRaises(history[1])
       THEN /\ pc' = "idle"
            /\ outcome' = "ValueError"
            /\ reads' = << >>
            /\ UNCHANGED << rvs_block, template_ys, basis, i, cadence_writes >>
       ELSE /\ LET run == UpdateFrom([st |-> Store, log |-> << >>], 1, arg.r)
               IN  /\ rvs_block' = run.st.rvs
                   /\ template_ys' = run.st.tmpl
                   /\ basis' = run.st.basis
                   /\ reads' = run.log
            /\ cadence_writes' =
                    IF CadenceDue(i, arg.save_every) /\ arg.save_history
                    THEN cadence_writes \cup {i}
                    ELSE cadence_writes
            /\ i' = i + 1
            /\ pc' = IF i + 1 < arg.niter THEN "loop" ELSE "final"
            /\ outcome' = outcome
    /\ UNCHANGED << notOptVars, components, dataM, call, calls, arg, driver, objective,
                    before, final_writes, initialized >>

\* Line 410: `history` is bound only if save_history was true.
FinalWrite ==
    /\ pc = "final"
    /\ IF history # None
       THEN final_writes' = final_writes + 1 /\ outcome' = "returned"
       ELSE final_writes' = final_writes /\ outcome' = "UnboundLocalError"
    /\ pc' = "idle"
    /\ UNCHANGED << notOptVars, modelVars, call, calls, arg, i, history, driver, objective,
                    before, iterStart, reads, cadence_writes, initialized >>

\* -------------------------------------------------------- optimize_orders
\* optimize_order's parameters (line 356), in order.
OptimizeOrderParams == << "model", "data", "r", "niter" >>

\* The positional arguments of the call of line 417, bound to the parameters.
DriverCallBinding ==
    LET args == << "session", "model", "data", "r" >>
    IN  [k \in 1 .. Len(args) |-> [param |-> OptimizeOrderParams[k], value |-> args[k]]]

\* Lines 412-417: the initializer run, then optimize_order for each order; its
\* first statement reads model.components, which only a Model has.  Nothing
\* catches an exception.
optimize_orders ==
    /\ pc = "idle"
    /\ calls < MaxCalls
    /\ calls' = calls + 1
    /\ LET st == GlobalVariablesInitializer(Store)
       IN  /\ rvs_block' = st.rvs
           /\ template_ys' = st.tmpl
           /\ basis' = st.basis
    /\ call' = "optimize_orders"
    /\ before' = Store
    /\ LET bound == CHOOSE b \in {DriverCallBinding[k] : k \in DOMAIN DriverCallBinding} :
                        b.param = "model"
       IN  IF bound.value = "model"
           THEN /\ outcome' = "returned"
                /\ driver' = [failed |-> {}, optimized |-> Orders]
           ELSE /\ outcome' = "AttributeError"
                /\ driver' = [failed |-> {0}, optimized |-> {}]
    /\ UNCHANGED << notOptVars, components, dataM, pc, arg, i, history, objective,
                    iterStart, reads, cadence_writes, final_writes, initialized >>

\* ---------------------------------------------------------- specification
InitOpt ==
    /\ components = << >>
    /\ rvs_block = << >>
    /\ template_ys = << >>
    /\ basis = << >>
    /\ dataM \in {SmallPixels, HistPixels}
    /\ OptIdle
    /\ SynthIdle
    /\ HistIdle
    /\ MaskIdle
    /\ NormIdle
    /\ SpectraIdle

NextOpt ==
    \/ add_star
    \/ add_telluric
    \/ OptimizeOrderBegin
    \/ Iterate
    \/ FinalWrite
    \/ optimize_orders

SpecOpt == InitOpt /\ [][NextOpt]_vars

\* ====================================================== Model.synthesize
\* The same model on numbers.  Wavelengths are counted in steps dx of the
\* template grid and velocities in the velocity that shifts by one step, so
\* that log(doppler(v)), which is -v/c to first order, is -v steps.
Epochs == 1 .. NumEpochs
Pixels == 1 .. SmallPixels

\* tf.log(doppler(v)) (lines 37-39, 158)
LogDoppler(v) == 0 - v

\* interp(x, xp, fp) of wobble/interp.py: piecewise linear in the nodes
\* (xp, fp), the boundary value outside them.
Interp(x, xp, fp) ==
    IF x <= xp[1] THEN fp[1]
    ELSE IF x >= xp[Len(xp)] THEN fp[Len(fp)]
    ELSE LET k == CHOOSE k \in 1 .. (Len(xp) - 1) : xp[k] <= x /\ x < xp[k + 1]
         IN  fp[k] + ((x - xp[k]) * (fp[k + 1] - fp[k])) \div (xp[k + 1] - xp[k])

\* template_xs[r] (lines 177-180, 190): the grid of step dx from GridPad steps
\* below the data of order r to GridPad steps above it.
TemplateXs(r) == [k \in 1 .. TemplateLen |-> (1 + r) - GridPad + (k - 1)]

\* Component.shift_and_interp(r, xs, rvs)
ShiftAndInterp(c, r, x, rvs) ==
    [n \in DOMAIN x |-> [m \in DOMAIN x[n] |->
        Interp(x[n][m] + LogDoppler(rvs[n]), TemplateXs(r), template_ys[c][r][1])]]

\* tf.matmul(basis_weights[r], basis_vectors[r]) at (n, m)
MatMulAt(w, v, n, m) ==
    LET RECURSIVE Dot(_)
        Dot(k) == IF k = 0 THEN 0 ELSE w[n][k] * v[k][m] + Dot(k - 1)
    IN  Dot(Len(v))

\* Component.synthesize(r, xs, rvs), and Telluric.synthesize, which scales every
\* epoch by its airmass.
ComponentSynthesize(c, r, x, rvs) ==
    LET shifted == ShiftAndInterp(c, r, x, rvs)
        own == [n \in DOMAIN x |-> [m \in DOMAIN x[n] |->
                    IF components[c].K > 0
                    THEN shifted[n][m]
                         + MatMulAt(basis[c][r][1].weights, basis[c][r][1].vectors, n, m)
                    ELSE shifted[n][m]]]
    IN  IF components[c].kind = "Telluric"
        THEN [n \in DOMAIN x |-> [m \in DOMAIN x[n] |-> airms[n] * own[n][m]]]
        ELSE own

ZerosLike(a) == [n \in DOMAIN a |-> [m \in DOMAIN a[n] |-> 0]]
MatAdd(a, b) == [n \in DOMAIN a |-> [m \in DOMAIN a[n] |-> a[n][m] + b[n][m]]]

\* `for c in self.components: synth += ...` from component c on.
RECURSIVE SynthesizeFrom(_, _, _)
SynthesizeFrom(acc, c, r) ==
    IF c > Len(components) THEN acc
    ELSE SynthesizeFrom(
            MatAdd(acc, ComponentSynthesize(c, r, xs[r], rvs_block[c][r])), c + 1, r)

\* Mutant: `synth = ...` for `synth += ...`, only the last component is left.
ModelSynthesizeLastOnly(r) ==
    IF Len(components) = 0 THEN ZerosLike(xs[r])
    ELSE ComponentSynthesize(Len(components), r, xs[r], rvs_block[Len(components)][r])

\* Model.synthesize(r)
ModelSynthesize(r) == SynthesizeFrom(ZerosLike(xs[r]), 1, r)

synthesize ==
    \E r \in Orders :
        /\ synth = None
        /\ synth' = Some(ModelSynthesize(r))
        /\ synth_r' = r
        /\ UNCHANGED << notSynthVars, components, rvs_block, template_ys, basis, xs, airms >>

\* The inputs: velocities, templates and bases per order.
RvsChoices ==
    {[r \in Orders |-> [n \in Epochs |-> 0]],
     [r \in Orders |-> [n \in Epochs |-> n + r]],
     [r \in Orders |-> [n \in Epochs |-> 0 - (GridPad + n)]]}
TemplateChoices ==
    {[r \in Orders |-> Some([k \in 1 .. TemplateLen |-> k + r])],
     [r \in Orders |-> Some([k \in 1 .. TemplateLen |-> ((k * k) % 7) + 2 * r])]}
BasisOf(K) ==
    [r \in Orders |->
        IF K = 0 THEN None
        ELSE Some([weights |-> [n \in Epochs |-> [k \in 1 .. K |-> n + k + r]],
                   vectors |-> [k \in 1 .. K |-> [m \in Pixels |-> m * k + r]]])]

InitSynth ==
    /\ \E count \in 0 .. MaxComponents :
          /\ components \in [1 .. count ->
                [kind : {"Star", "Telluric"}, K : 0 .. MaxBases, rvs_fixed : {FALSE}]]
          /\ rvs_block \in [1 .. count -> RvsChoices]
          /\ template_ys \in [1 .. count -> TemplateChoices]
    /\ basis = [c \in DOMAIN components |-> BasisOf(components[c].K)]
    /\ xs = [r \in Orders |-> [n \in Epochs |-> [m \in Pixels |-> m + r]]]
    /\ airms = [n \in Epochs |-> n + 1]
    /\ synth = None
    /\ synth_r = 0
    /\ dataM = SmallPixels
    /\ OptIdle
    /\ HistIdle
    /\ MaskIdle
    /\ NormIdle
    /\ SpectraIdle

NextSynth == synthesize

SpecSynth == InitSynth /\ [][NextSynth]_vars

\* ================================================ History.write / History.read
\* A numpy array is its shape and its contents; the contents are a number that
\* stands for all the elements, different numbers for different contents.
Array(shape, data) == [shape |-> shape, data |-> data]

\* The attributes History.write stores one dataset each for, and those it
\* stores one dataset per component for.
TopAttrs == {"nll_history", "chis_history", "r", "niter"}
ListAttrs ==
    {"rvs_history", "template_history", "basis_vectors_history", "basis_weights_history"}

\* The contents of the arrays of one component: one number per attribute, so
\* that no two attributes and no two tokens t share contents.
AttrData(attr, t) ==
    CASE attr = "rvs_history" -> 4 * t
      [] attr = "template_history" -> 4 * t + 1
      [] attr = "basis_vectors_history" -> 4 * t + 2
      [] attr = "basis_weights_history" -> 4 * t + 3

\* A History by attribute: History.__init__'s arrays, holding the contents
\* `fill` (what np.empty left and save_iter stored).
HistoryObject(r, niter, fill) ==
    LET h == HistoryInit(r, niter)
    IN  [r |-> r,
         niter |-> niter,
         nll_history |-> Array(h.nll_shape, fill.nll),
         chis_history |-> Array(h.chis_shape, fill.chis),
         rvs_history |->
            [c \in Comps |-> Array(h.rvs_shape[c], AttrData("rvs_history", fill.comp[c]))],
         template_history |->
            [c \in Comps |->
                Array(h.template_shape[c], AttrData("template_history", fill.comp[c]))],
         basis_vectors_history |->
            [c \in Comps |->
                Array(h.basis_vectors_shape[c],
                      AttrData("basis_vectors_history", fill.comp[c]))],
         basis_weights_history |->
            [c \in Comps |->
                Array(h.basis_weights_shape[c],
                      AttrData("basis_weights_history", fill.comp[c]))]]

\* 'order{0}_history.hdf5'.format(self.r)
DefaultFilename(r) == "order" \o ToString(r) \o "_history.hdf5"

\* A file name a caller passes.
GivenFilename == "history.hdf5"
Filenames == {DefaultFilename(r) : r \in Orders} \cup {GivenFilename}

\* Mutant: the dataset name without the component's index.
DatasetKeyOfFirst(attr, j) == attr \o "_0"

\* attr+'_{0}'.format(i)
DatasetKey(attr, j) == attr \o "_" \o ToString(j)

\* The file History.write leaves: h5py.File(filename, 'w') truncates, then one
\* dataset per top attribute and one per list attribute and component.
HistoryFile(h) ==
    LET indices == 0 .. (Len(h.template_history) - 1)
        listKeys == {DatasetKey(attr, j) : attr \in ListAttrs, j \in indices}
    IN  [key \in TopAttrs \cup listKeys |->
            IF key \in {"r", "niter"} THEN Array(<< >>, h[key])
            ELSE IF key \in TopAttrs THEN h[key]
            ELSE LET p == CHOOSE p \in ListAttrs \X indices : DatasetKey(p[1], p[2]) = key
                 IN  h[p[1]][p[2] + 1]]

\* History.write(filename)
HistoryWrite ==
    \E filename \in {None, Some(GivenFilename)} :
        LET name == IF filename = None THEN DefaultFilename(hist[1].r) ELSE filename[1]
        IN  /\ files' = [files EXCEPT ![name] = Some(HistoryFile(hist[1]))]
            /\ written' = written \cup {name}
            /\ UNCHANGED << hist, loaded >>
            /\ UNCHANGED << notHistVars, modelVars >>

\* f[attr+'_{0}'.format(i)] raises KeyError for a dataset the file lacks.
ReadRaises(h, f) ==
    \E attr \in ListAttrs, j \in 0 .. (Len(h.template_history) - 1) :
        DatasetKey(attr, j) \notin DOMAIN f

\* History.read(filename) on the History h: every attribute is replaced by a
\* copy of the file's dataset, the list attributes by the list of the datasets
\* of index 0 .. len(self.template_history) - 1.
HistoryRead(h, f) ==
    LET count == Len(h.template_history)
        list(attr) == [c \in 1 .. count |-> f[DatasetKey(attr, c - 1)]]
    IN  [r |-> f["r"],
         niter |-> f["niter"],
         nll_history |-> f["nll_history"],
         chis_history |-> f["chis_history"],
         rvs_history |-> list("rvs_history"),
         template_history |-> list("template_history"),
         basis_vectors_history |-> list("basis_vectors_history"),
         basis_weights_history |-> list("basis_weights_history")]

\* What np.empty leaves in the arrays of a new History.
EmptyFill == [nll |-> 2, chis |-> 2, comp |-> [c \in Comps |-> 2]]

\* History(model, data, r, niter, filename) for the same model: __init__
\* allocates, then reads the file.
HistoryLoad ==
    \E r \in Orders, niter \in {0, MaxIter}, filename \in Filenames :
        LET h == HistoryObject(r, niter, EmptyFill)
            result(out, obj) ==
                Some([filename |-> filename, after_write |-> filename \in written,
                      outcome |-> out, history |-> obj])
        IN  /\ IF files[filename] = None
               THEN loaded' = result("OSError", None)
               ELSE IF ReadRaises(h, files[filename][1])
               THEN loaded' = result("KeyError", None)
               ELSE loaded' = result("ok", Some(HistoryRead(h, files[filename][1])))
            /\ UNCHANGED << hist, files, written >>
            /\ UNCHANGED << notHistVars, modelVars >>

\* A file left under the caller's name by an earlier run: the history of a
\* model without components.
StaleFile ==
    [key \in TopAttrs |->
        CASE key = "nll_history" -> Array(<< 0 >>, 3)
          [] key = "chis_history" -> Array(<< 0, NumEpochs, HistPixels >>, 3)
          [] key = "r" -> Array(<< >>, 0)
          [] key = "niter" -> Array(<< >>, 0)]

InitHist ==
    /\ \E count \in 0 .. MaxComponents :
          /\ components \in [1 .. count -> [K : 0 .. MaxBases, rvs_fixed : {FALSE}]]
          /\ rvs_block = [c \in 1 .. count |-> [r \in Orders |-> 0]]
          /\ template_ys = [c \in 1 .. count |-> [r \in Orders |-> Some(0)]]
    /\ basis = [c \in DOMAIN components |->
                  [r \in Orders |-> IF components[c].K > 0 THEN Some(0) ELSE None]]
    /\ dataM = HistPixels
    /\ \E r \in Orders, niter \in 0 .. MaxIter, top \in 0 .. 1,
          comp \in [DOMAIN components -> 0 .. 1] :
          hist = Some(HistoryObject(r, niter,
                                    [nll |-> top, chis |-> 1 - top, comp |-> comp]))
    /\ \E stale \in {None, Some(StaleFile)} :
          files = [name \in Filenames |-> IF name = GivenFilename THEN stale ELSE None]
    /\ written = {}
    /\ loaded = None
    /\ OptIdle
    /\ SynthIdle
    /\ MaskIdle
    /\ NormIdle
    /\ SpectraIdle

NextHist ==
    \/ HistoryWrite
    \/ HistoryLoad

SpecHist == InitHist /\ [][NextHist]_vars

\* ================================================= Spectrum.mask_low_pixels
\* A flux is NaN or a number; an inverse variance is a number.
NaN == << >>
Num(v) == << v >>

PixelsOf(y) == 1 .. Len(y)

\* self.ys[r] < min_flux, elementwise: a comparison with NaN is False.
Below(y, min_flux) == y # NaN /\ y[1] < min_flux

\* np.logical_or(self.ys[r] < min_flux, np.isnan(self.ys[r]))
LowOrNaN(y, min_flux) == [p \in PixelsOf(y) |-> Below(y[p], min_flux) \/ y[p] = NaN]

\* np.roll(bad, k): element p moves to p + k, around the ends.
Roll(bad, k) ==
    LET size == Cardinality(DOMAIN bad)
    IN  [p \in DOMAIN bad |-> bad[((p - 1 - k) % size) + 1]]

LogicalOr(a, b) == [p \in DOMAIN a |-> a[p] \/ b[p]]

\* Mutant: the neighbours on one side only.
PadStepOneSide(bad, pad) == LogicalOr(bad, Roll(bad, pad + 1))

\* One pass of the padding loop (lines 374-375).
PadStep(bad, pad) ==
    LET right == LogicalOr(bad, Roll(bad, pad + 1))
    IN  LogicalOr(right, Roll(right, 0 - pad - 1))

\* `for pad in range(padding)` from pass `pad` on.
RECURSIVE PadFrom(_, _, _)
PadFrom(bad, pad, padding) ==
    IF pad >= padding THEN bad
    ELSE PadFrom(PadStep(bad, pad), pad + 1, padding)

\* self.ys[r][bad] = min_flux
LowYs(y, bad, min_flux) == [p \in PixelsOf(y) |-> IF bad[p] THEN Num(min_flux) ELSE y[p]]

\* self.ivars[r][bad] = 0.
MaskedIvars(iv, bad) == [p \in DOMAIN iv |-> IF bad[p] THEN 0 ELSE iv[p]]

\* Spectrum.mask_low_pixels(min_flux, padding), every order.
mask_low_pixels ==
    \E min_flux \in {1, 3}, padding \in 0 .. MaxPadding :
        /\ mask_call = None
        /\ mask_call' = Some([op |-> "low", min_flux |-> min_flux, padding |-> padding])
        /\ pre_ys' = ys
        /\ pre_ivars' = ivars
        /\ ys' = [r \in DOMAIN ys |-> LowYs(ys[r], LowOrNaN(ys[r], min_flux), min_flux)]
        /\ ivars' = [r \in DOMAIN ys |->
                        MaskedIvars(ivars[r],
                                    PadFrom(LowOrNaN(ys[r], min_flux), 0, padding))]
        /\ UNCHANGED notMaskVars

\* self.ys[r] > max_flux, elementwise: a comparison with NaN is False.
Above(y, max_flux) == y # NaN /\ y[1] > max_flux

\* bad = self.ys[r] > max_flux
High(y, max_flux) == [p \in PixelsOf(y) |-> Above(y[p], max_flux)]

\* One pass of mask_high_pixels' padding loop (lines 384-385): the shift is
\* padding + 1 in every pass.
HighPadStep(bad, padding) ==
    LET right == LogicalOr(bad, Roll(bad, padding + 1))
    IN  LogicalOr(right, Roll(right, 0 - padding - 1))

\* `for pad in range(padding)` of mask_high_pixels from pass `pad` on.
RECURSIVE HighPadFrom(_, _, _)
HighPadFrom(bad, pad, padding) ==
    IF pad >= padding THEN bad
    ELSE HighPadFrom(HighPadStep(bad, padding), pad + 1, padding)

\* self.ys[r][bad] = 1.
HighYs(y, bad) == [p \in PixelsOf(y) |-> IF bad[p] THEN Num(1) ELSE y[p]]

\* Spectrum.mask_high_pixels(max_flux, padding), every order.
mask_high_pixels ==
    \E max_flux \in {1, 2}, padding \in 0 .. MaxPadding :
        /\ mask_call = None
        /\ mask_call' = Some([op |-> "high", max_flux |-> max_flux, padding |-> padding])
        /\ pre_ys' = ys
        /\ pre_ivars' = ivars
        /\ ys' = [r \in DOMAIN ys |-> HighYs(ys[r], High(ys[r], max_flux))]
        /\ ivars' = [r \in DOMAIN ys |->
                        MaskedIvars(ivars[r],
                                    HighPadFrom(High(ys[r], max_flux), 0, padding))]
        /\ UNCHANGED notMaskVars

\* The Spectrum whose pixels in `low` hold the fluxes `flux` (NaN, a low flux or
\* a high one) and whose other pixels hold the flux 2, every inverse variance
\* being 1.
InitMask ==
    /\ \E low \in SUBSET (Orders \X (1 .. MaskPixels)) :
          /\ Cardinality(low) <= MaxBad
          /\ \E flux \in [low -> {NaN, Num(0), Num(5)}] :
                ys = [r \in Orders |-> [p \in 1 .. MaskPixels |->
                        IF << r, p >> \in low THEN flux[<< r, p >>] ELSE Num(2)]]
    /\ ivars = [r \in Orders |-> [p \in 1 .. MaskPixels |-> 1]]
    /\ mask_call = None
    /\ pre_ys = << >>
    /\ pre_ivars = << >>
    /\ components = << >>
    /\ rvs_block = << >>
    /\ template_ys = << >>
    /\ basis = << >>
    /\ dataM = MaskPixels
    /\ OptIdle
    /\ SynthIdle
    /\ HistIdle
    /\ NormIdle
    /\ SpectraIdle

NextMask ==
    \/ mask_low_pixels
    \/ mask_high_pixels

SpecMask == InitMask /\ [][NextMask]_vars

\* ===================================================== continuum_normalize
\* fit_continuum(xs, ys, ivars) of wobble/utils.py either raises or returns the
\* continuum, one value per pixel: None is a call that raises, Some(fit) one
\* that returns fit.
FitOutcomes ==
    {None, Some([m \in Pixels |-> 1]), Some([m \in Pixels |-> m])}

\* a - fit, elementwise
Subtract(a, fit) == [m \in DOMAIN a |-> a[m] - fit[m]]

\* np.zeros_like(a) of a 1-D array
ZerosLike1(a) == [m \in DOMAIN a |-> 0]

\* Spectrum.continuum_normalize(): every order is fitted; an order whose fit
\* raises is set to zero (flux and inverse variance), the others have their
\* fit subtracted.
SpectrumContinuumNormalize ==
    \E fits \in [Orders -> FitOutcomes] :
        /\ cn_call = None
        /\ cn_obj.cls = "Spectrum"
        /\ cn_before' = cn_obj
        /\ cn_obj' =
              [cn_obj EXCEPT
                 !.ys = [r \in Orders |->
                            IF fits[r] = None THEN ZerosLike1(cn_obj.ys[r])
                            ELSE Subtract(cn_obj.ys[r], fits[r][1])],
                 !.ivars = [r \in Orders |->
                            IF fits[r] = None THEN ZerosLike1(cn_obj.ivars[r])
                            ELSE cn_obj.ivars[r]]]
        /\ cn_call' = Some([fits |-> fits, outcome |-> "returned"])
        /\ UNCHANGED notNormVars

\* The epochs of Data.continuum_normalize's loops come in the order (r, n).
Earlier(r1, n1, r2, n2) == r1 < r2 \/ (r1 = r2 /\ n1 < n2)

\* Data.continuum_normalize(): every epoch of every order is fitted and has
\* its fit subtracted; nothing catches a fit that raises, so the first one
\* ends the call, the epochs before it normalized and the others untouched.
DataContinuumNormalize ==
    \E fits \in [Orders \X Epochs -> FitOutcomes] :
        LET raises(r, n) == fits[<< r, n >>] = None
            reached(r, n) ==
                \A r0 \in Orders, n0 \in Epochs :
                    Earlier(r0, n0, r, n) => ~raises(r0, n0)
        IN  /\ cn_call = None
            /\ cn_obj.cls = "Data"
            /\ cn_before' = cn_obj
            /\ cn_obj' =
                  [cn_obj EXCEPT
                     !.ys = [r \in Orders |-> [n \in Epochs |->
                                IF reached(r, n) /\ ~raises(r, n)
                                THEN Subtract(cn_obj.ys[r][n], fits[<< r, n >>][1])
                                ELSE cn_obj.ys[r][n]]]]
            /\ cn_call' =
                  Some([fits |-> fits,
                        outcome |-> IF \E r \in Orders, n \in Epochs : raises(r, n)
                                    THEN "raised" ELSE "returned"])
            /\ UNCHANGED notNormVars

\* A Spectrum (one array of M pixels per order) or a Data (N epochs of M
\* pixels per order); an order's inverse variances are all 1 or all 0.
InitNorm ==
    /\ \E cls \in {"Spectrum", "Data"}, good \in [Orders -> {0, 1}] :
          cn_obj =
             IF cls = "Spectrum"
             THEN [cls |-> cls,
                   ys |-> [r \in Orders |-> [m \in Pixels |-> 10 + 2 * r + m]],
                   ivars |-> [r \in Orders |-> [m \in Pixels |-> good[r]]]]
             ELSE [cls |-> cls,
                   ys |-> [r \in Orders |-> [n \in Epochs |->
                              [m \in Pixels |-> 10 + 2 * r + 3 * n + m]]],
                   ivars |-> [r \in Orders |-> [n \in Epochs |->
                              [m \in Pixels |-> good[r]]]]]
    /\ cn_call = None
    /\ cn_before = None
    /\ components = << >>
    /\ rvs_block = << >>
    /\ template_ys = << >>
    /\ basis = << >>
    /\ dataM = SmallPixels
    /\ OptIdle
    /\ SynthIdle
    /\ HistIdle
    /\ MaskIdle
    /\ SpectraIdle

NextNorm ==
    \/ SpectrumContinuumNormalize
    \/ DataContinuumNormalize

SpecNorm == InitNorm /\ [][NextNorm]_vars

\* ================================================= Spectra.append / Spectra.pop
\* An array is its shape and its rows: the spectra (by label) whose pixels
\* it holds, in order.
REQUIRED_3D == {"xs", "ys", "ivars"}
REQUIRED_1D == {"bervs", "airms"}
OPTIONAL_1D == {"pipeline_rvs", "pipeline_sigmas", "dates", "drifts", "filelist"}

\* Spectra.__init__(): empty lists and arrays, N = R = 0.
NewSpectra ==
    [empty |-> TRUE, N |-> 0, R |-> 0,
     arrays |-> [attr \in REQUIRED_3D |-> << >>],
     meta |-> [attr \in REQUIRED_1D \cup OPTIONAL_1D |-> << >>]]

\* The Spectrum objects appended: R orders of SmallPixels pixels each, with
\* the per-epoch attributes set or not.
Spectrums == [R : 1 .. NumOrders, label : 1 .. 2, has_meta : BOOLEAN]

\* getattr(sp, attr) of a 3-D attribute: one 1-D array per order.
SpectrumArrays(sp) == [r \in 1 .. sp.R |-> [shape |-> << SmallPixels >>, rows |-> << sp.label >>]]

\* getattr(sp, attr) of a per-epoch attribute, or the placeholder the except
\* branch takes: 1. for a required attribute, 0. for an optional one.
SpectrumMeta(sp, attr) ==
    IF sp.has_meta THEN 10 + sp.label
    ELSE IF attr \in REQUIRED_1D THEN 1 ELSE 0

\* np.atleast_2d, on shapes
AtLeast2D(shape) == IF Len(shape) = 1 THEN << 1, shape[1] >> ELSE shape

\* np.vstack([old, new]) raises ValueError unless the row lengths agree.
VStackRaises(old, new) == AtLeast2D(old.shape)[2] # AtLeast2D(new.shape)[2]

\* np.vstack([old, new])
VStack(old, new) ==
    [shape |-> << AtLeast2D(old.shape)[1] + AtLeast2D(new.shape)[1], AtLeast2D(old.shape)[2] >>,
     rows |-> old.rows \o new.rows]

\* Mutant: no check of the order count.
OrdersMatchUnchecked(R, spR) == TRUE

\* assert self.R == sp.R
OrdersMatch(R, spR) == R = spR

\* Spectra.append(sp) on the Spectra s: the outcome and the Spectra left.  The
\* list of stacked arrays is built for r in range(self.R) before it is stored:
\* new[r] raises IndexError past sp's orders, np.vstack raises ValueError.
SpectraAppend(s, sp) ==
    LET new == SpectrumArrays(sp)
        withMeta(t) ==
            [t EXCEPT
               !.meta = [attr \in DOMAIN s.meta |-> Append(s.meta[attr], SpectrumMeta(sp, attr))],
               !.N = s.N + 1,
               !.empty = FALSE]
    IN  IF s.empty
        THEN [outcome |-> "returned",
              spectra |-> withMeta([s EXCEPT !.R = sp.R,
                                             !.arrays = [attr \in REQUIRED_3D |-> new]])]
        ELSE IF ~OrdersMatch(s.R, sp.R)
        THEN [outcome |-> "AssertionError", spectra |-> s]
        ELSE IF sp.R < s.R
        THEN [outcome |-> "IndexError", spectra |-> s]
        ELSE IF \E r \in 1 .. s.R : VStackRaises(s.arrays["xs"][r], new[r])
        THEN [outcome |-> "ValueError", spectra |-> s]
        ELSE [outcome |-> "returned",
              spectra |-> withMeta([s EXCEPT
                            !.arrays = [attr \in REQUIRED_3D |->
                                [r \in 1 .. s.R |-> VStack(s.arrays[attr][r], new[r])]]])]

\* The sequence without its element of (0-based) index k.
Without(seq, k) == SubSeq(seq, 1, k) \o SubSeq(seq, k + 2, Len(seq))

\* np.delete(a, k, axis=0): of a 2-D array the row k, of a 1-D array the
\* element k.
Delete(a, k) ==
    IF Len(a.shape) = 1
    THEN [shape |-> << a.shape[1] - 1 >>, rows |-> a.rows]
    ELSE [shape |-> << a.shape[1] - 1, a.shape[2] >>, rows |-> Without(a.rows, k)]

\* assert 0 <= i < self.N
ValidIndex(k, N) == 0 <= k /\ k < N

\* Spectra.pop(i) on the Spectra s: the outcome and the Spectra left.
SpectraPop(s, k) ==
    IF ~ValidIndex(k, s.N)
    THEN [outcome |-> "AssertionError", spectra |-> s]
    ELSE [outcome |-> "returned",
          spectra |-> [s EXCEPT
                !.arrays = [attr \in REQUIRED_3D |->
                              [r \in 1 .. s.R |-> Delete(s.arrays[attr][r], k)]],
                !.meta = [attr \in DOMAIN s.meta |-> Without(s.meta[attr], k)],
                !.N = s.N - 1]]

append ==
    \E sp \in Spectrums :
        LET result == SpectraAppend(spectra, sp)
        IN  /\ spectra.N < MaxAppend
            /\ spectra' = result.spectra
            /\ spectra_before' = spectra
            /\ spectra_call' = [op |-> "append", R |-> sp.R, index |-> 0,
                                outcome |-> result.outcome]
            /\ UNCHANGED notSpectraVars

pop ==
    \E k \in -1 .. MaxAppend :
        LET result == SpectraPop(spectra, k)
        IN  /\ spectra' = result.spectra
            /\ spectra_before' = spectra
            /\ spectra_call' = [op |-> "pop", R |-> 0, index |-> k,
                                outcome |-> result.outcome]
            /\ UNCHANGED notSpectraVars

InitSpectra ==
    /\ spectra = NewSpectra
    /\ spectra_before = NewSpectra
    /\ spectra_call = [op |-> "none", R |-> 0, index |-> 0, outcome |-> "none"]
    /\ components = << >>
    /\ rvs_block = << >>
    /\ template_ys = << >>
    /\ basis = << >>
    /\ dataM = SmallPixels
    /\ OptIdle
    /\ SynthIdle
    /\ HistIdle
    /\ MaskIdle
    /\ NormIdle

NextSpectra ==
    \/ append
    \/ pop

SpecSpectra == InitSpectra /\ [][NextSpectra]_vars

\* =================================================================== claims
\* An iteration of the running optimize_order has completed: reads and iterStart
\* are those of iteration i - 1, and the components are those it ran over.
IterationDone == call = "optimize_order" /\ pc \in {"loop", "final"} /\ i > 0

\* optimize_order has ended, by returning or by raising.
CallEnded == call = "optimize_order" /\ pc = "idle"

\* The ops one iteration runs, by the algorithm of section 4.5 step 4: for every
\* component a velocity step unless its velocities are fixed, a template step,
\* and a basis step if K > 0.
VarRank(var) == CASE var = "rvs" -> 1 [] var = "template" -> 2 [] var = "basis" -> 3
OpsOfIteration ==
    {op \in Comps \X {"rvs", "template", "basis"} :
        /\ op[2] = "rvs" => ~components[op[1]].rvs_fixed
        /\ op[2] = "basis" => components[op[1]].K > 0}
OpBefore(a, b) == a[1] < b[1] \/ (a[1] = b[1] /\ VarRank(a[2]) < VarRank(b[2]))
OpsBefore(op) == {a \in OpsOfIteration : OpBefore(a, op)}

\* The values vals after one step of every op in ops.
AfterOps(vals, ops) ==
    [c \in DOMAIN vals |->
        [rvs |-> vals[c].rvs + (IF << c, "rvs" >> \in ops THEN 1 ELSE 0),
         tmpl |-> Some(vals[c].tmpl[1] + (IF << c, "template" >> \in ops THEN 1 ELSE 0)),
         basis |-> IF vals[c].basis = None THEN None
                   ELSE Some(vals[c].basis[1] + (IF << c, "basis" >> \in ops THEN 1 ELSE 0))]]

C2_OtherOrdersUnchanged ==
    call = "optimize_order" =>
        \A c \in DOMAIN before.rvs : \A r2 \in Orders \ {arg.r} :
            /\ rvs_block[c][r2] = before.rvs[c][r2]
            /\ template_ys[c][r2] = before.tmpl[c][r2]
            /\ basis[c][r2] = before.basis[c][r2]

\* The velocity ops of component c in the last iteration.
RvsOps(c) == {k \in DOMAIN reads : reads[k].c = c /\ reads[k].var = "rvs"}

\* C3: optimize_order(r) leaves the velocities of every rvs_fixed component for
\* order r as they were before the call, whatever niter and the other components
\* are; every other component gets exactly one velocity step per iteration.
C3_FixedVelocitiesKept ==
    call = "optimize_order" =>
        /\ \A c \in DOMAIN before.rvs :
              components[c].rvs_fixed => rvs_block[c][arg.r] = before.rvs[c][arg.r]
        /\ IterationDone =>
              \A c \in Comps :
                  /\ Cardinality(RvsOps(c)) = IF components[c].rvs_fixed THEN 0 ELSE 1
                  /\ ~components[c].rvs_fixed => rvs_block[c][arg.r] = i

\* C3's case: a call of two iterations has ended on a model with a fixed and a
\* free component, the free one two velocity steps on.
C3_Witness ==
    /\ CallEnded
    /\ arg.niter = 2
    /\ i = 2
    /\ \E c \in Comps, d \in Comps :
          /\ components[c].rvs_fixed
          /\ ~components[d].rvs_fixed
          /\ rvs_block[d][arg.r] = 2
          /\ rvs_block[c][arg.r] = before.rvs[c][arg.r]

\* C4 as stated: when an order fails in optimize_orders, every other order is
\* still optimized for its full budget and the driver does not abort.
C4_FailureConfined ==
    (call = "optimize_orders" /\ driver.failed # {}) =>
        /\ outcome = "returned"
        /\ \A r2 \in Orders \ driver.failed : r2 \in driver.optimized

\* C6 as stated: with history asked for, a history write happens at the end of
\* iteration k exactly when k + 1 is divisible by save_every.
C6_CadenceWrites ==
    (call = "optimize_order" /\ arg.save_history) =>
        \A k \in 0 .. (i - 1) : (k \in cadence_writes) <=> ((k + 1) % arg.save_every = 0)

\* C7 as stated: for either value of save_history optimize_order runs all niter
\* iterations and returns normally, with the final history write made once if
\* history was asked for and not at all otherwise.
C7_ReturnsNormally ==
    CallEnded =>
        /\ outcome = "returned"
        /\ i = arg.niter
        /\ final_writes = IF arg.save_history THEN 1 ELSE 0

\* C9 as stated: for every tracked quantity the slot History preallocates for
\* one iteration has exactly the shape of the value save_iter records, and
\* save_iter succeeds.
C9_SlotsMatchValues ==
    (call = "optimize_order" /\ history # None) =>
        LET h == history[1]
        IN  /\ Slot(h.nll_shape) = NllShape
            /\ Slot(h.chis_shape) = ChisShape
            /\ \A c \in DOMAIN h.rvs_shape :
                  /\ Slot(h.rvs_shape[c]) = RvsShape
                  /\ Slot(h.template_shape[c]) = TemplateShape
                  /\ components[c].K > 0 =>
                        /\ Slot(h.basis_vectors_shape[c]) = BasisVectorsShape(c)
                        /\ Slot(h.basis_weights_shape[c]) = BasisWeightsShape(c)
            /\ outcome # "ValueError"

\* The sum over the components in S of what each synthesizes at (n, m) for the
\* order r, its wavelengths and the component's current velocities.
RECURSIVE SumOfComponents(_, _, _, _)
SumOfComponents(S, r, n, m) ==
    IF S = {} THEN 0
    ELSE LET c == CHOOSE d \in S : TRUE
         IN  ComponentSynthesize(c, r, xs[r], rvs_block[c][r])[n][m]
             + SumOfComponents(S \ {c}, r, n, m)

\* C5: Model.synthesize(r) is the element-wise sum over all components, each
\* once, of the component's synthesize at the data's wavelengths of order r and
\* its current velocities for r; with no component it is all zeros, of the
\* shape of the order's wavelengths.
C5_SynthesizeIsSum ==
    synth # None =>
        LET out == synth[1]
        IN  /\ DOMAIN out = DOMAIN xs[synth_r]
            /\ \A n \in DOMAIN out :
                  /\ DOMAIN out[n] = DOMAIN xs[synth_r][n]
                  /\ \A m \in DOMAIN out[n] :
                        /\ out[n][m] = SumOfComponents(Comps, synth_r, n, m)
                        /\ Len(components) = 0 => out[n][m] = 0

\* C5's case: synthesize has run on a star and a telluric with a basis, both
\* contributing.
C5_Witness ==
    /\ synth # None
    /\ Len(components) = 2
    /\ components[1].kind = "Star"
    /\ components[2].kind = "Telluric"
    /\ components[2].K > 0
    /\ \A c \in Comps :
          ComponentSynthesize(c, synth_r, xs[synth_r], rvs_block[c][synth_r])[1][1] # 0
    /\ synth[1][1][1] # 0

\* ---------------------------------------------------------------- C8
\* The last load read a file that `hist` had been written to.
LoadedAfterWrite == loaded # None /\ loaded[1].after_write

\* C8: History.write followed by History.read of the same file into a History
\* built for the same model succeeds and yields nll_history, chis_history and,
\* for each component index, rvs_history, template_history,
\* basis_vectors_history and basis_weights_history equal to the originals, each
\* stored under and read back from its own key.
C8_RoundTrip ==
    LoadedAfterWrite =>
        /\ loaded[1].outcome = "ok"
        /\ LET got == loaded[1].history[1]
               f == files[loaded[1].filename][1]
           IN  /\ got.nll_history = hist[1].nll_history
               /\ got.chis_history = hist[1].chis_history
               /\ f["nll_history"] = hist[1].nll_history
               /\ f["chis_history"] = hist[1].chis_history
               /\ \A attr \in ListAttrs :
                     /\ Len(got[attr]) = Len(components)
                     /\ \A c \in Comps :
                           /\ got[attr][c] = hist[1][attr][c]
                           /\ (attr \o "_" \o ToString(c - 1)) \in DOMAIN f
                           /\ f[attr \o "_" \o ToString(c - 1)] = hist[1][attr][c]

\* C8 witness: a History of two components whose arrays differ was written and
\* read back.
C8_Witness ==
    /\ LoadedAfterWrite
    /\ loaded[1].outcome = "ok"
    /\ Len(components) = 2
    /\ hist[1].rvs_history[1] # hist[1].rvs_history[2]
    /\ loaded[1].history[1].rvs_history[2] = hist[1].rvs_history[2]

\* ---------------------------------------------------------------- C10
\* mask_low_pixels was called.
LowCalled == mask_call # None /\ mask_call[1].op = "low"

\* The pixel was below min_flux or NaN when the mask was called.
WasLow(r, p) == Below(pre_ys[r][p], mask_call[1].min_flux) \/ pre_ys[r][p] = NaN

Distance(p, q) == IF p >= q THEN p - q ELSE q - p

\* C10: after mask_low_pixels(min_flux, padding), in every order, each pixel
\* whose flux was below min_flux or NaN has flux min_flux and inverse variance
\* 0, and every pixel at distance 1..padding from it has inverse variance 0.
C10_LowPixelsMasked ==
    LowCalled =>
        \A r \in DOMAIN ys : \A p \in PixelsOf(ys[r]) :
            WasLow(r, p) =>
                /\ ys[r][p] = Num(mask_call[1].min_flux)
                /\ ivars[r][p] = 0
                /\ \A q \in PixelsOf(ys[r]) :
                      (1 <= Distance(p, q) /\ Distance(p, q) <= mask_call[1].padding)
                          => ivars[r][q] = 0

\* C10 witness: a mask of padding 2 found a NaN pixel and a low pixel, zeroed a
\* good pixel two away from a low one and left some pixel unmasked.
C10_Witness ==
    /\ LowCalled
    /\ mask_call[1].padding = 2
    /\ \E r \in DOMAIN ys : \E p, q \in PixelsOf(ys[r]) :
          /\ WasLow(r, p)
          /\ ~WasLow(r, q)
          /\ Distance(p, q) = 2
          /\ ivars[r][q] = 0
          /\ ys[r][q] = pre_ys[r][q]
    /\ \E r \in DOMAIN ys : \E p \in PixelsOf(ys[r]) : pre_ys[r][p] = NaN
    /\ \E r \in DOMAIN ys : \E p \in PixelsOf(ys[r]) : ivars[r][p] = 1

\* ---------------------------------------------------------------- C11
\* mask_high_pixels was called.
HighCalled == mask_call # None /\ mask_call[1].op = "high"

\* The pixel's flux was above max_flux when the mask was called.
WasHigh(r, p) == Above(pre_ys[r][p], mask_call[1].max_flux)

\* C11: after mask_high_pixels(max_flux, padding) with padding >= 1, in every
\* order, each pixel whose flux was above max_flux has inverse variance 0, and
\* so has every pixel at distance 1..padding from it.
C11_HighPixelsMasked ==
    (HighCalled /\ mask_call[1].padding >= 1) =>
        \A r \in DOMAIN ys : \A p \in PixelsOf(ys[r]) :
            WasHigh(r, p) =>
                /\ ivars[r][p] = 0
                /\ \A q \in PixelsOf(ys[r]) :
                      (1 <= Distance(p, q) /\ Distance(p, q) <= mask_call[1].padding)
                          => ivars[r][q] = 0

\* ---------------------------------------------------------------- C19
\* The pixel was flagged by the mask that was called.
WasFlagged(r, p) == IF mask_call[1].op = "low" THEN WasLow(r, p) ELSE WasHigh(r, p)

\* C19: after mask_low_pixels or mask_high_pixels with a given padding, a pixel
\* that was not flagged and lies more than padding positions, counted without
\* wrap-around, from every flagged pixel keeps its inverse variance and flux.
C19_MaskingLocal ==
    mask_call # None =>
        \A r \in DOMAIN ys : \A q \in PixelsOf(ys[r]) :
            (/\ ~WasFlagged(r, q)
             /\ \A p \in PixelsOf(ys[r]) :
                   WasFlagged(r, p) => Distance(p, q) > mask_call[1].padding)
                => /\ ivars[r][q] = pre_ivars[r][q]
                   /\ ys[r][q] = pre_ys[r][q]

\* ---------------------------------------------------------------- C12
\* The fit of order r failed: for a Spectrum the order's one fit, for a Data the
\* fit of one of its epochs.
FitFailed(r) ==
    IF cn_obj.cls = "Spectrum" THEN cn_call[1].fits[r] = None
    ELSE \E n \in Epochs : cn_call[1].fits[<< r, n >>] = None

\* Order r is normalized as if no fit had failed: the fit is subtracted from
\* its flux and its inverse variance is as before.
NormalizedOrder(r) ==
    /\ cn_obj.ivars[r] = cn_before.ivars[r]
    /\ IF cn_obj.cls = "Spectrum"
       THEN cn_obj.ys[r] = Subtract(cn_before.ys[r], cn_call[1].fits[r][1])
       ELSE \A n \in Epochs :
               cn_obj.ys[r][n] = Subtract(cn_before.ys[r][n], cn_call[1].fits[<< r, n >>][1])

\* Order r's flux and inverse variance are zero everywhere.
ZeroedOrder(r) ==
    IF cn_obj.cls = "Spectrum"
    THEN /\ \A m \in Pixels : cn_obj.ys[r][m] = 0 /\ cn_obj.ivars[r][m] = 0
    ELSE \A n \in Epochs, m \in Pixels : cn_obj.ys[r][n][m] = 0 /\ cn_obj.ivars[r][n][m] = 0

\* C12: continuum normalization never aborts on a per-order fit failure: the
\* call returns normally, an order whose fit failed has flux and inverse
\* variance zero, and every other order is normalized as if nothing had failed.
C12_FitFailureConfined ==
    cn_call # None =>
        /\ cn_call[1].outcome = "returned"
        /\ \A r \in Orders :
              IF FitFailed(r) THEN ZeroedOrder(r) ELSE NormalizedOrder(r)

\* ---------------------------------------------------------------- C13
\* C13: after any sequence of Spectra.append and Spectra.pop from an empty
\* Spectra, for every order the arrays xs[r], ys[r] and ivars[r] have the shape
\* (N, M), N the epoch counter (N = 1 and N = 0 included), and every per-epoch
\* attribute has length N.
C13_ShapesAgree ==
    /\ \A attr \in REQUIRED_3D : \A r \in 1 .. Len(spectra.arrays[attr]) :
          spectra.arrays[attr][r].shape = << spectra.N, SmallPixels >>
    /\ \A attr \in REQUIRED_1D \cup OPTIONAL_1D : Len(spectra.meta[attr]) = spectra.N

\* ---------------------------------------------------------------- C14
\* The last call was an append, to a Spectra holding epochs, of a spectrum of
\* another order count, or a pop of an index outside [0, N).
BadConfiguration ==
    \/ /\ spectra_call.op = "append"
       /\ spectra_before.N >= 1
       /\ spectra_call.R # spectra_before.R
    \/ /\ spectra_call.op = "pop"
       /\ ~(0 <= spectra_call.index /\ spectra_call.index < spectra_before.N)

\* C14: an append of a spectrum whose order count differs from a non-empty
\* dataset's R, and a pop(i) with i outside [0, N), raise an error and leave
\* N, R and every per-order and per-epoch array as before the call.
C14_ConfigurationFailsFast ==
    BadConfiguration =>
        /\ spectra_call.outcome \notin {"none", "returned"}
        /\ spectra = spectra_before

\* C14 witness: a mismatched append to a Spectra of two epochs was refused.
C14_Witness ==
    /\ spectra_call.op = "append"
    /\ spectra_before.N = 2
    /\ spectra_call.R # spectra_before.R
    /\ spectra_call.outcome = "AssertionError"
    /\ spectra.N = 2

\* ------------------------------------------------------------------- C15
\* The components of K >= 1 (N >= K) whose basis for order r exists, that is
\* for which initialize_template(r) has run.
BasisInitialized(c, r) ==
    /\ components[c].K >= 1
    /\ NumEpochs >= components[c].K
    /\ basis[c][r] # None

\* C15, as stated: after initialize_template for order r, of a component with
\* K >= 1 basis vectors on N >= K epochs, the basis weights have shape (N, K)
\* and the basis vectors have shape (K, L), L the length of template_ys[r].
C15_BasisShapesOfTemplate ==
    \A c \in Comps : \A r \in Orders :
        BasisInitialized(c, r) =>
            /\ BasisWeightsShape(c) = << NumEpochs, components[c].K >>
            /\ BasisVectorsShape(c) = << components[c].K, TemplateLen >>

\* C15, amended: the basis weights have shape (N, K) and the basis vectors
\* have shape (K, M), M the number of pixels of the data of order r (not the
\* length of the template).
C15_BasisShapes ==
    \A c \in Comps : \A r \in Orders :
        BasisInitialized(c, r) =>
            /\ BasisWeightsShape(c) = << NumEpochs, components[c].K >>
            /\ BasisVectorsShape(c) = << components[c].K, dataM >>

\* C15's case: optimize_order has initialized the template and the basis of a
\* component with K >= 1 for the order of the call.
C15_Witness ==
    /\ call = "optimize_order"
    /\ \E c \in Comps :
          /\ BasisInitialized(c, arg.r)
          /\ template_ys[c][arg.r] # None
          /\ before.basis[c][arg.r] = None

\* ------------------------------------------------------------------- C16
\* The components of the model when the last optimize_order began.
ComponentsOfCall == DOMAIN before.rvs

\* C16: the objective built by optimize_order holds the template L1 term of
\* every component, and the basis-vector L2 term and the basis-weight L2 term
\* of every component with K > 0.
C16_EveryComponentRegularized ==
    (call = "optimize_order" /\ objective # None) =>
        LET withBasis == {c \in ComponentsOfCall : components[c].K > 0}
        IN  /\ objective[1].L1_norm_template = ComponentsOfCall
            /\ objective[1].L2_norm_basis_vectors = withBasis
            /\ objective[1].L2_norm_basis_weights = withBasis

\* ------------------------------------------------------------------- C17
\* The components initialized for the order of call k before call k was made.
InitializedEarlier(k) ==
    {initialized[j].c : j \in {j \in 1 .. (k - 1) : initialized[j].r = initialized[k].r}}

\* Order r was fresh when the optimize_order of call k began: no template of
\* r had been initialized by an earlier optimize_order.
FreshOrder(k) ==
    \A j \in 1 .. (k - 1) :
        initialized[j].r = initialized[k].r => initialized[j].call = initialized[k].call

\* C17: optimize_order(r) initializes templates in list order and only where
\* the template for r is uninitialized; the residual of the component at
\* position j has had subtracted exactly the other components whose template
\* for r is already initialized (all the earlier positions on a fresh order),
\* never its own; an initialized template is never uninitialized again and
\* never initialized a second time by a later optimize_order.
C17_TemplatesInitializedOnceInOrder ==
    /\ \A k \in 1 .. Len(initialized) :
          LET e == initialized[k]
          IN  /\ e.c \notin e.subtracted
              /\ e.subtracted = InitializedEarlier(k) \ {e.c}
              /\ FreshOrder(k) => e.subtracted = 1 .. (e.c - 1)
              /\ template_ys[e.c][e.r] # None
              /\ \A j \in 1 .. (k - 1) :
                    /\ ~(initialized[j].c = e.c /\ initialized[j].r = e.r)
                    /\ initialized[j].call = e.call => initialized[j].c < e.c
    /\ \A c \in Comps : \A r \in Orders :
          template_ys[c][r] # None =>
              \E k \in 1 .. Len(initialized) :
                  initialized[k].c = c /\ initialized[k].r = r

\* C17's case: a second optimize_order of the same order, made after a
\* component was added, initialized the new component only, with the
\* component initialized by the first call taken off its residuals.
C17_Witness ==
    \E k \in 1 .. Len(initialized) :
        /\ initialized[k].call = 2
        /\ initialized[k].subtracted # {}
        /\ ~FreshOrder(k)
        /\ Len(initialized) = Len(components)

\* ------------------------------------------------------------------- C18
\* The values of component c's variables of the order of the call after k
\* completed iterations: the initializer run of line 394, then one step per
\* iteration on each variable the loop updates.
AfterIterations(c, k) ==
    [rvs |-> IF RvsFixed(c) THEN 0 ELSE k,
     tmpl |-> Some(k),
     basis |-> IF components[c].K > 0 THEN Some(k) ELSE None]

\* Slot k of the history holds the snapshot taken after k completed iterations.
SnapshotTaken(h, k) ==
    /\ h.nll[k] # None
    /\ h.chis[k] # None
    /\ \A c \in DOMAIN h.state[k] :
          /\ h.state[k][c].rvs = Some(AfterIterations(c, k).rvs)
          /\ h.state[k][c].template = Some(AfterIterations(c, k).tmpl)
          /\ components[c].K > 0 =>
                h.state[k][c].basis = Some(AfterIterations(c, k).basis)

\* Slot k of the history is as History.__init__ left it.
SnapshotEmpty(h, k) ==
    /\ h.nll[k] = None
    /\ h.chis[k] = None
    /\ \A c \in DOMAIN h.state[k] :
          h.state[k][c] = [template |-> None, rvs |-> None, basis |-> None]

\* C18: with history requested, optimize_order records one snapshot per
\* iteration index 0 .. niter-1, in increasing order and without overwriting;
\* snapshot k is taken before iteration k's updates and holds the state after
\* exactly k completed iterations, so after i iterations the slots below i are
\* taken, the others are untouched, and the current state is in none of them.
C18_OneSnapshotPerIteration ==
    (call = "optimize_order" /\ arg.save_history) =>
        /\ outcome # "ValueError"
        /\ \A k \in 0 .. (arg.niter - 1) :
              IF k < i THEN SnapshotTaken(history[1], k)
              ELSE SnapshotEmpty(history[1], k)

====
